---- MODULE Spec2Model ----
(***************************************************************************)
(* Library lending example (EJEMPLO 1/Sistemagestionbliblioteca.py):       *)
(* Libro / LibroFisico / LibroDigital and Usuario / Estudiante / Profesor. *)
(* Time is counted in tics (TicsPorDia tics make one day); money in        *)
(* centavos, so 0.50 is 50 and 1.00 is 100.                                *)
(* Shop example (EJEMPLO 2/Sistemadetiendaonline.py): Producto.            *)
(***************************************************************************)
EXTENDS Integers, Sequences, FiniteSets, TLC

\* ------------------------------------------------------------- bounds
MaxReloj == 41          \* the clock stops advancing here (tics)
MaxHistorial == 3       \* loans recorded, all borrowers together, where time passes
MaxProductos == 2       \* Producto objects built
MaxIds == 11            \* Producto objects built in SpecIds
MaxStock == 6           \* a stock above this is not raised further
MaxExtra == 1           \* loans recorded beyond the loan limit in SpecLimite
TicsPorDia == 2         \* resolution of the clock: tics in one day

\* ------------------------------------------------------ the objects built
Estante == {"E1", "E2", "E3", "E4", "E5", "E6", "E7", "E8", "E9", "E10"}
Fisicos == {"F1", "F2", "F3"} \cup Estante    \* LibroFisico instances
Digitales == {"D1"}                 \* LibroDigital instances
Libros == Fisicos \cup Digitales
Usuarios == {"est", "prof"}         \* one Estudiante, one Profesor

\* F1 and F2 are two copies of one title and share an ISBN; the objects
\* stay distinct (Libro defines no __eq__)
isbn(l) ==
    IF l \in {"F1", "F2"} THEN "978-A"
    ELSE IF l = "D1" THEN "978-B"
    ELSE "978-" \o l
titulo(l) ==
    IF l \in {"F1", "F2"} THEN "Titulo A"
    ELSE IF l = "D1" THEN "Titulo B"
    ELSE "Titulo " \o l

\* Optional values: None is the empty sequence, a set value a 1-sequence
None == <<>>
Some(x) == <<x>>

\* inputs of the operations
Pasos == {15, 41}                   \* clock advances, in tics
PasosLibro == {13, 28}              \* clock advances in SpecLibro
CantidadesLimite == {599, 10000}    \* amounts offered in SpecLimite
Cantidades == {-50, 0, 299, 10000}  \* amounts offered to pagar_multa

VARIABLES
    reloj,                 \* datetime.now(), in tics
    disponible,            \* Libro._disponible
    fecha_prestamo,        \* Libro._fecha_prestamo (Optional)
    usuario_actual,        \* Libro._usuario_actual (Optional)
    libros_prestados,      \* Usuario._libros_prestados (list of Libro)
    historial_prestamos,   \* Usuario._historial_prestamos (list of dict)
    multa_acumulada,       \* Usuario._multa_acumulada (centavos)
    ult,                   \* the last call made and what it returned (a
                           \* successful prestar_libro also notes the held
                           \* list and the balance it found, and
                           \* aplicar_descuento the price it found)
    contador_productos,    \* Producto._contador_productos (class attribute)
    productos              \* the Producto objects built, in order of creation

vars == <<reloj, disponible, fecha_prestamo, usuario_actual,
          libros_prestados, historial_prestamos, multa_acumulada, ult,
          contador_productos, productos>>

\* the state of the library example, without the record of the last call
estado == <<reloj, disponible, fecha_prestamo, usuario_actual,
            libros_prestados, historial_prestamos, multa_acumulada>>

\* the state of the shop example
tienda == <<contador_productos, productos>>

\* ------------------------------------------------------------ time
\* timedelta.days: whole days of an interval, rounded down
days(delta) == delta \div TicsPorDia

\* ------------------------------------------------- per-variant constants
DiasFisico == 14
DiasDigital == 7
LimiteEstudiante == 3
LimiteProfesor == 10
MultaEstudiante == 50
MultaProfesor == 100

calcular_dias_prestamo(l) == IF l \in Fisicos THEN DiasFisico ELSE DiasDigital

obtener_tipo(l) == IF l \in Fisicos THEN "Libro Físico" ELSE "Libro Digital"

limite_prestamos(u) == IF u = "est" THEN LimiteEstudiante ELSE LimiteProfesor

calcular_multa_por_dia(u) == IF u = "est" THEN MultaEstudiante ELSE MultaProfesor

\* ------------------------------------------------------------ helpers
Max(a, b) == IF a >= b THEN a ELSE b

\* `libro in lista`
Contiene(s, x) == \E i \in 1..Len(s) : s[i] = x

\* faulty variant of Remove: the first element is dropped, whichever it is
Remove_primero(s, x) == SubSeq(s, 2, Len(s))

\* list.remove(x): drops the first occurrence
Remove(s, x) ==
    LET i == CHOOSE k \in 1..Len(s) : s[k] = x /\ \A j \in 1..(k - 1) : s[j] # x
    IN  SubSeq(s, 1, i - 1) \o SubSeq(s, i + 1, Len(s))

\* ------------------------------------------------------------ Libro
\* Libro.prestar: the value returned
prestar_ret(l) == disponible[l]

\* faulty variants of prestar_usuario: the holder is never recorded; the
\* holder is overwritten even when the book is on loan
prestar_usuario_sin_holder(l, u) == usuario_actual[l]
prestar_usuario_siempre(l, u) == Some(u)
\* Libro.prestar: the book's fields after the call
prestar_disponible(l) == IF disponible[l] THEN FALSE ELSE disponible[l]
prestar_fecha(l) == IF disponible[l] THEN Some(reloj) ELSE fecha_prestamo[l]
prestar_usuario(l, u) == IF disponible[l] THEN Some(u) ELSE usuario_actual[l]

\* faulty variant of dias_retraso: the day the loan expires counts as late
dias_retraso_desde_vencimiento(l) ==
    LET dias_prestado == days(reloj - fecha_prestamo[l][1])
        dias_limite == calcular_dias_prestamo(l)
    IN  Max(0, dias_prestado - dias_limite + 1)

\* Libro.devolver: dias_retraso of a book on loan
dias_retraso(l) ==
    LET dias_prestado == days(reloj - fecha_prestamo[l][1])
        dias_limite == calcular_dias_prestamo(l)
    IN  Max(0, dias_prestado - dias_limite)

\* faulty variant of devolver_ret: the holder is read after it was cleared
devolver_ret_usuario_despues(l) ==
    IF ~disponible[l] THEN <<dias_retraso(l), None>>
    ELSE <<0, None>>

\* Libro.devolver: the tuple returned
devolver_ret(l) ==
    IF ~disponible[l] THEN <<dias_retraso(l), usuario_actual[l]>>
    ELSE <<0, None>>

\* faulty variant of devolver_fecha: the timestamp is not cleared
devolver_fecha_sin_limpiar(l) == fecha_prestamo[l]
\* Libro.devolver: the book's fields after the call
devolver_disponible(l) == IF ~disponible[l] THEN TRUE ELSE disponible[l]
devolver_fecha(l) == IF ~disponible[l] THEN None ELSE fecha_prestamo[l]
devolver_usuario(l) == IF ~disponible[l] THEN None ELSE usuario_actual[l]

\* ------------------------------------------------------------ Usuario
\* faulty variants of puede_prestar: <= for <; or for and; no look at the
\* fine balance
puede_prestar_hasta_limite(u) ==
    LET dentro_limite == Len(libros_prestados[u]) <= limite_prestamos(u)
        sin_multas == multa_acumulada[u] = 0
    IN  dentro_limite /\ sin_multas

puede_prestar_o(u) ==
    LET dentro_limite == Len(libros_prestados[u]) < limite_prestamos(u)
        sin_multas == multa_acumulada[u] = 0
    IN  dentro_limite \/ sin_multas

puede_prestar_sin_multas(u) ==
    Len(libros_prestados[u]) < limite_prestamos(u)

puede_prestar(u) ==
    LET dentro_limite == Len(libros_prestados[u]) < limite_prestamos(u)
        sin_multas == multa_acumulada[u] = 0
    IN  dentro_limite /\ sin_multas

\* faulty variant of RegistroACerrar: the scan runs oldest-first
RegistroACerrar_mas_antiguo(h, l) ==
    LET abiertos == {i \in 1..Len(h) : h[i].libro_isbn = isbn(l) /\ ~h[i].devuelto}
    IN  IF abiertos = {} THEN 0
        ELSE CHOOSE i \in abiertos : \A j \in abiertos : i <= j

\* faulty variant of RegistroACerrar: devuelto is not looked at
RegistroACerrar_sin_mirar_devuelto(h, l) ==
    LET delisbn == {i \in 1..Len(h) : h[i].libro_isbn = isbn(l)}
    IN  IF delisbn = {} THEN 0
        ELSE CHOOSE i \in delisbn : \A j \in delisbn : j <= i

\* index of the record devolver_libro closes: newest open one with the ISBN
\* (0 when the scan finds none)
RegistroACerrar(h, l) ==
    LET abiertos == {i \in 1..Len(h) : h[i].libro_isbn = isbn(l) /\ ~h[i].devuelto}
    IN  IF abiertos = {} THEN 0
        ELSE CHOOSE i \in abiertos : \A j \in abiertos : j <= i

Cerrar(r, dias) ==
    [libro_titulo |-> r.libro_titulo, libro_isbn |-> r.libro_isbn,
     fecha_prestamo |-> r.fecha_prestamo, tipo_libro |-> r.tipo_libro,
     devuelto |-> TRUE, fecha_devolucion |-> reloj, dias_retraso |-> dias]

\* the history after devolver_libro: the scan closes one record or none
CerrarHistorial(h, l, dias) ==
    LET i == RegistroACerrar(h, l)
    IN  IF i = 0 THEN h ELSE [h EXCEPT ![i] = Cerrar(h[i], dias)]

\* faulty variant of calcular_multa: the Estudiante rate for every borrower
calcular_multa_tarifa_unica(u, dias) ==
    IF dias > 0 THEN dias * MultaEstudiante ELSE 0

\* faulty variant of calcular_multa: at least one day is charged for every
\* return
calcular_multa_minima(u, dias) ==
    Max(1, dias) * calcular_multa_por_dia(u)

\* devolver_libro: the fine charged for a return dias days late
calcular_multa(u, dias) ==
    IF dias > 0 THEN dias * calcular_multa_por_dia(u) ELSE 0

\* faulty variants of pagar_multa_saldo: amounts that are not positive are
\* accepted too; the balance is not floored at zero
pagar_multa_saldo_sin_guarda(u, cantidad) ==
    Max(0, multa_acumulada[u] - cantidad)

pagar_multa_saldo_sin_piso(u, cantidad) ==
    IF cantidad > 0 THEN multa_acumulada[u] - cantidad
    ELSE multa_acumulada[u]

\* pagar_multa: the balance after the call
pagar_multa_saldo(u, cantidad) ==
    IF cantidad > 0 THEN Max(0, multa_acumulada[u] - cantidad)
    ELSE multa_acumulada[u]

\* ------------------------------------------------------------ Init
Init ==
    /\ reloj = 0
    /\ disponible = [l \in Libros |-> TRUE]
    /\ fecha_prestamo = [l \in Libros |-> None]
    /\ usuario_actual = [l \in Libros |-> None]
    /\ libros_prestados = [u \in Usuarios |-> <<>>]
    /\ historial_prestamos = [u \in Usuarios |-> <<>>]
    /\ multa_acumulada = [u \in Usuarios |-> 0]
    /\ contador_productos = 0
    /\ productos = <<>>
    /\ ult = [op |-> "init"]

\* ------------------------------------------------------------ actions
\* the clock moves between calls
PasaTiempo(d) ==
    /\ reloj + d <= MaxReloj
    /\ reloj' = reloj + d
    /\ ult' = [op |-> "tiempo"]
    /\ UNCHANGED <<tienda, disponible, fecha_prestamo, usuario_actual,
                   libros_prestados, historial_prestamos, multa_acumulada>>

\* the clock moves and no call is made: the record of the last call stays
Espera(d) ==
    /\ reloj + d <= MaxReloj
    /\ reloj' = reloj + d
    /\ UNCHANGED <<tienda, disponible, fecha_prestamo, usuario_actual,
                   libros_prestados, historial_prestamos, multa_acumulada, ult>>

\* libro.prestar(usuario), called directly
prestar(l, u) ==
    /\ disponible' = [disponible EXCEPT ![l] = prestar_disponible(l)]
    /\ fecha_prestamo' = [fecha_prestamo EXCEPT ![l] = prestar_fecha(l)]
    /\ usuario_actual' = [usuario_actual EXCEPT ![l] = prestar_usuario(l, u)]
    /\ ult' = [op |-> "prestar", libro |-> l, usuario |-> u, ret |-> prestar_ret(l)]
    /\ UNCHANGED <<tienda, reloj, libros_prestados, historial_prestamos, multa_acumulada>>

\* libro.devolver(), called directly
devolver(l) ==
    /\ disponible' = [disponible EXCEPT ![l] = devolver_disponible(l)]
    /\ fecha_prestamo' = [fecha_prestamo EXCEPT ![l] = devolver_fecha(l)]
    /\ usuario_actual' = [usuario_actual EXCEPT ![l] = devolver_usuario(l)]
    /\ ult' = [op |-> "devolver", libro |-> l, ret |-> devolver_ret(l)]
    /\ UNCHANGED <<tienda, reloj, libros_prestados, historial_prestamos, multa_acumulada>>

\* usuario.prestar_libro(libro)
prestar_libro(u, l) ==
    /\ IF puede_prestar(u) /\ prestar_ret(l)
       THEN /\ disponible' = [disponible EXCEPT ![l] = prestar_disponible(l)]
            /\ fecha_prestamo' = [fecha_prestamo EXCEPT ![l] = prestar_fecha(l)]
            /\ usuario_actual' = [usuario_actual EXCEPT ![l] = prestar_usuario(l, u)]
            /\ libros_prestados' =
                   [libros_prestados EXCEPT ![u] = Append(@, l)]
            /\ historial_prestamos' =
                   [historial_prestamos EXCEPT ![u] = Append(@,
                       [libro_titulo |-> titulo(l), libro_isbn |-> isbn(l),
                        fecha_prestamo |-> reloj, tipo_libro |-> obtener_tipo(l),
                        devuelto |-> FALSE])]
            /\ ult' = [op |-> "prestar_libro", usuario |-> u, libro |-> l, ret |-> TRUE,
                       antes |-> libros_prestados[u], saldo |-> multa_acumulada[u]]
            /\ UNCHANGED <<tienda, reloj, multa_acumulada>>
       ELSE /\ ult' = [op |-> "prestar_libro", usuario |-> u, libro |-> l, ret |-> FALSE]
            /\ UNCHANGED <<tienda, reloj, disponible, fecha_prestamo, usuario_actual,
                           libros_prestados, historial_prestamos, multa_acumulada>>

\* faulty variant of devolver_libro: libro.devolver() is called before the
\* held list is looked at
devolver_libro_sin_comprobar(u, l) ==
    IF Contiene(libros_prestados[u], l)
    THEN LET dias == devolver_ret(l)[1]
             multa == calcular_multa(u, dias)
         IN  /\ disponible' = [disponible EXCEPT ![l] = devolver_disponible(l)]
             /\ fecha_prestamo' = [fecha_prestamo EXCEPT ![l] = devolver_fecha(l)]
             /\ usuario_actual' = [usuario_actual EXCEPT ![l] = devolver_usuario(l)]
             /\ libros_prestados' =
                    [libros_prestados EXCEPT ![u] = Remove(@, l)]
             /\ historial_prestamos' =
                    [historial_prestamos EXCEPT ![u] = CerrarHistorial(@, l, dias)]
             /\ multa_acumulada' =
                    [multa_acumulada EXCEPT ![u] = @ + multa]
             /\ ult' = [op |-> "devolver_libro", usuario |-> u, libro |-> l,
                        dias |-> dias, ret |-> multa]
             /\ UNCHANGED <<tienda, reloj>>
    ELSE /\ disponible' = [disponible EXCEPT ![l] = devolver_disponible(l)]
         /\ fecha_prestamo' = [fecha_prestamo EXCEPT ![l] = devolver_fecha(l)]
         /\ usuario_actual' = [usuario_actual EXCEPT ![l] = devolver_usuario(l)]
         /\ ult' = [op |-> "devolver_libro", usuario |-> u, libro |-> l,
                    dias |-> 0, ret |-> 0]
         /\ UNCHANGED <<tienda, reloj, libros_prestados, historial_prestamos,
                        multa_acumulada>>

\* usuario.devolver_libro(libro)
devolver_libro(u, l) ==
    IF Contiene(libros_prestados[u], l)
    THEN LET dias == devolver_ret(l)[1]
             multa == calcular_multa(u, dias)
         IN  /\ disponible' = [disponible EXCEPT ![l] = devolver_disponible(l)]
             /\ fecha_prestamo' = [fecha_prestamo EXCEPT ![l] = devolver_fecha(l)]
             /\ usuario_actual' = [usuario_actual EXCEPT ![l] = devolver_usuario(l)]
             /\ libros_prestados' =
                    [libros_prestados EXCEPT ![u] = Remove(@, l)]
             /\ historial_prestamos' =
                    [historial_prestamos EXCEPT ![u] = CerrarHistorial(@, l, dias)]
             /\ multa_acumulada' =
                    [multa_acumulada EXCEPT ![u] = @ + multa]
             /\ ult' = [op |-> "devolver_libro", usuario |-> u, libro |-> l,
                        dias |-> dias, ret |-> multa]
             /\ UNCHANGED <<tienda, reloj>>
    ELSE /\ ult' = [op |-> "devolver_libro", usuario |-> u, libro |-> l,
                    dias |-> 0, ret |-> 0]
         /\ UNCHANGED <<tienda, reloj, disponible, fecha_prestamo, usuario_actual,
                        libros_prestados, historial_prestamos, multa_acumulada>>

\* usuario.pagar_multa(cantidad)
pagar_multa(u, cantidad) ==
    /\ multa_acumulada' =
           [multa_acumulada EXCEPT ![u] = pagar_multa_saldo(u, cantidad)]
    /\ ult' = [op |-> "pagar_multa", usuario |-> u, cantidad |-> cantidad,
               ret |-> pagar_multa_saldo(u, cantidad)]
    /\ UNCHANGED <<tienda, reloj, disponible, fecha_prestamo, usuario_actual,
                   libros_prestados, historial_prestamos>>

\* usuario.puede_prestar(), called directly
llamar_puede_prestar(u) ==
    /\ ult' = [op |-> "puede_prestar", usuario |-> u, ret |-> puede_prestar(u)]
    /\ UNCHANGED <<tienda, reloj, disponible, fecha_prestamo, usuario_actual,
                   libros_prestados, historial_prestamos, multa_acumulada>>

\* a call of prestar_libro that would record a loan is made only while the
\* borrower's history holds fewer than n records
Cabe(u, l, n) ==
    (puede_prestar(u) /\ prestar_ret(l)) => Len(historial_prestamos[u]) < n

\* the number of loans recorded by the borrowers of S
RECURSIVE TotalHistorial(_)
TotalHistorial(S) ==
    IF S = {} THEN 0
    ELSE LET u == CHOOSE x \in S : TRUE
         IN  Len(historial_prestamos[u]) + TotalHistorial(S \ {u})

\* ... or only while all the histories together hold fewer than n records
CabeTotal(u, l, n) ==
    (puede_prestar(u) /\ prestar_ret(l)) => TotalHistorial(Usuarios) < n

\* ------------------------------------------------------------ Spec
\* every public operation of Libro and Usuario, on one book of each kind
LibrosSpec == {"F1"}
LibrosUsuario == {"F1", "D1"}
LibrosLibro == {"F1", "F2", "D1"}
LibrosLimite(u) ==
    IF u = "est" THEN {"F1", "F2", "F3", "D1"} ELSE {"D1", "E10"}

Next ==
    \/ \E d \in Pasos : PasaTiempo(d)
    \/ \E l \in LibrosSpec, u \in Usuarios : prestar(l, u)
    \/ \E l \in LibrosSpec : devolver(l)
    \/ \E u \in Usuarios, l \in LibrosSpec :
           CabeTotal(u, l, MaxHistorial) /\ prestar_libro(u, l)
    \/ \E u \in Usuarios, l \in LibrosSpec : devolver_libro(u, l)
    \/ \E u \in Usuarios, c \in Cantidades : pagar_multa(u, c)
    \/ \E u \in Usuarios : llamar_puede_prestar(u)

Spec == Init /\ [][Next]_vars

\* ------------------------------------------------------------ SpecUsuario
\* books lent and returned only through Usuario
NextUsuario ==
    \/ \E d \in Pasos : PasaTiempo(d)
    \/ \E u \in Usuarios, l \in LibrosUsuario :
           CabeTotal(u, l, MaxHistorial) /\ prestar_libro(u, l)
    \/ \E u \in Usuarios, l \in LibrosUsuario : devolver_libro(u, l)
    \/ \E u \in Usuarios, c \in Cantidades : pagar_multa(u, c)
    \/ \E u \in Usuarios : llamar_puede_prestar(u)

SpecUsuario == Init /\ [][NextUsuario]_vars

\* ------------------------------------------------------------ SpecLibro
\* the operations of Libro alone
NextLibro ==
    \/ \E d \in PasosLibro : PasaTiempo(d)
    \/ \E l \in LibrosLibro, u \in Usuarios : prestar(l, u)
    \/ \E l \in LibrosLibro : devolver(l)

SpecLibro == Init /\ [][NextLibro]_vars

\* ------------------------------------------------------------ SpecLimite
\* the loan limits: the Profesor borrowed the ten books of Estante, one
\* after the other, at tic 0, and the clock now stands at MaxReloj; no time
\* passes in this specification
EstanteSeq == <<"E1", "E2", "E3", "E4", "E5", "E6", "E7", "E8", "E9", "E10">>

InitLimite ==
    /\ reloj = MaxReloj
    /\ disponible = [l \in Libros |-> l \notin Estante]
    /\ fecha_prestamo = [l \in Libros |-> IF l \in Estante THEN Some(0) ELSE None]
    /\ usuario_actual = [l \in Libros |-> IF l \in Estante THEN Some("prof") ELSE None]
    /\ libros_prestados = [u \in Usuarios |-> IF u = "prof" THEN EstanteSeq ELSE <<>>]
    /\ historial_prestamos = [u \in Usuarios |->
           IF u = "prof"
           THEN [i \in 1..Len(EstanteSeq) |->
                    [libro_titulo |-> titulo(EstanteSeq[i]),
                     libro_isbn |-> isbn(EstanteSeq[i]),
                     fecha_prestamo |-> 0,
                     tipo_libro |-> obtener_tipo(EstanteSeq[i]),
                     devuelto |-> FALSE]]
           ELSE <<>>]
    /\ multa_acumulada = [u \in Usuarios |-> 0]
    /\ contador_productos = 0
    /\ productos = <<>>
    /\ ult = [op |-> "init"]

NextLimite ==
    \/ \E u \in Usuarios : \E l \in LibrosLimite(u) :
           Cabe(u, l, limite_prestamos(u) + MaxExtra) /\ prestar_libro(u, l)
    \/ \E u \in Usuarios : \E l \in LibrosLimite(u) : devolver_libro(u, l)
    \/ \E u \in Usuarios, c \in CantidadesLimite : pagar_multa(u, c)
    \/ \E u \in Usuarios : llamar_puede_prestar(u)

SpecLimite == InitLimite /\ [][NextLimite]_vars

\* ------------------------------------------------------------ SpecCopias
\* two copies of one title (one ISBN) lent and returned through Usuario
LibrosCopias == {"F1", "F2"}
PagoTotal == {10000}                \* amounts offered in SpecCopias

NextCopias ==
    \/ \E d \in Pasos : PasaTiempo(d)
    \/ \E u \in Usuarios, l \in LibrosCopias :
           CabeTotal(u, l, MaxHistorial) /\ prestar_libro(u, l)
    \/ \E u \in Usuarios, l \in LibrosCopias : devolver_libro(u, l)
    \/ \E u \in Usuarios, c \in PagoTotal : pagar_multa(u, c)

SpecCopias == Init /\ [][NextCopias]_vars

\* ------------------------------------------------------------ SpecIdaVuelta
\* loans and returns through Usuario with the clock moving between a call
\* and the next one
NextIdaVuelta ==
    \/ \E d \in Pasos : Espera(d)
    \/ \E u \in Usuarios, l \in LibrosUsuario :
           CabeTotal(u, l, MaxHistorial) /\ prestar_libro(u, l)
    \/ \E u \in Usuarios, l \in LibrosUsuario : devolver_libro(u, l)
    \/ \E u \in Usuarios, c \in PagoTotal : pagar_multa(u, c)

SpecIdaVuelta == Init /\ [][NextIdaVuelta]_vars

\* ------------------------------------------------------------ Producto
\* Shop example (EJEMPLO 2/Sistemadetiendaonline.py). A Producto is a record
\* of the fields that change or identify it; prices are in centavos. The
\* prices offered are whole currency units and the percentages whole
\* numbers, so that a percentage of a price is a whole number of centavos.
Precios == {-1000, 2500, 120000}        \* precio given to the constructor
Existencias == {10}                     \* stock given to the constructor
Porcentajes == {-1, 0, 10, 50, 100, 101}    \* porcentaje given to aplicar_descuento

\* the decimal digits of n
RECURSIVE Digitos(_)
Digitos(n) == IF n < 10 THEN <<n>> ELSE Append(Digitos(n \div 10), n % 10)

\* f"{n:04d}": the digits of n, padded with zeros on the left to four
Formato04d(n) ==
    LET d == Digitos(n)
    IN  IF Len(d) >= 4 THEN d ELSE [i \in 1..(4 - Len(d)) |-> 0] \o d

\* faulty variant of generar_id: the counter is used as it stands
generar_id_sin_siguiente ==
    [prefijo |-> "PROD-", numero |-> Formato04d(contador_productos)]

\* Producto._generar_id
generar_id == [prefijo |-> "PROD-", numero |-> Formato04d(contador_productos + 1)]

\* Producto.validar_precio (a static method; the constructor does not call it)
validar_precio(precio) == precio > 0

\* faulty variant of aplicar_descuento_precio: no upper end of the range
aplicar_descuento_precio_sin_tope(pr, porcentaje) ==
    IF 0 <= porcentaje
    THEN LET descuento == (pr.precio_original * porcentaje) \div 100
         IN  pr.precio_original - descuento
    ELSE pr.precio_actual

\* faulty variant of aplicar_descuento_precio: the discount is taken from
\* the current price
aplicar_descuento_precio_compuesto(pr, porcentaje) ==
    IF 0 <= porcentaje /\ porcentaje <= 100
    THEN LET descuento == (pr.precio_actual * porcentaje) \div 100
         IN  pr.precio_actual - descuento
    ELSE pr.precio_actual

\* Producto.aplicar_descuento: _precio_actual after the call, which is also
\* the value returned
aplicar_descuento_precio(pr, porcentaje) ==
    IF 0 <= porcentaje /\ porcentaje <= 100
    THEN LET descuento == (pr.precio_original * porcentaje) \div 100
         IN  pr.precio_original - descuento
    ELSE pr.precio_actual

\* Producto(nombre, precio, categoria, stock)
crear_producto(precio, stock) ==
    /\ productos' = Append(productos,
           [id |-> generar_id, precio_original |-> precio,
            precio_actual |-> precio, stock |-> stock, ventas_totales |-> 0])
    /\ contador_productos' = contador_productos + 1
    /\ ult' = [op |-> "Producto", producto |-> Len(productos) + 1,
               precio |-> precio]
    /\ UNCHANGED estado

\* producto.aplicar_descuento(porcentaje)
aplicar_descuento(i, porcentaje) ==
    /\ productos' = [productos EXCEPT ![i].precio_actual =
                        aplicar_descuento_precio(productos[i], porcentaje)]
    /\ ult' = [op |-> "aplicar_descuento", producto |-> i,
               porcentaje |-> porcentaje,
               antes |-> productos[i].precio_actual,
               ret |-> aplicar_descuento_precio(productos[i], porcentaje)]
    /\ UNCHANGED <<estado, contador_productos>>

\* producto.restaurar_precio_original()
restaurar_precio_original(i) ==
    /\ productos' = [productos EXCEPT ![i].precio_actual =
                        productos[i].precio_original]
    /\ ult' = [op |-> "restaurar_precio_original", producto |-> i]
    /\ UNCHANGED <<estado, contador_productos>>

\* faulty variant of reducir_stock_ret: the whole stock cannot be sold
reducir_stock_ret_estricto(pr, cantidad) == pr.stock > cantidad

\* Producto.reducir_stock: the value returned and the fields after the call
reducir_stock_ret(pr, cantidad) == pr.stock >= cantidad
reducir_stock_stock(pr, cantidad) ==
    IF reducir_stock_ret(pr, cantidad) THEN pr.stock - cantidad ELSE pr.stock
reducir_stock_ventas(pr, cantidad) ==
    IF reducir_stock_ret(pr, cantidad) THEN pr.ventas_totales + cantidad
    ELSE pr.ventas_totales

\* producto.reducir_stock(cantidad)
reducir_stock(i, cantidad) ==
    /\ productos' = [productos EXCEPT
           ![i].stock = reducir_stock_stock(productos[i], cantidad),
           ![i].ventas_totales = reducir_stock_ventas(productos[i], cantidad)]
    /\ ult' = [op |-> "reducir_stock", producto |-> i, cantidad |-> cantidad,
               ret |-> reducir_stock_ret(productos[i], cantidad)]
    /\ UNCHANGED <<estado, contador_productos>>

\* Producto.validar_precio(precio), called directly
llamar_validar_precio(precio) ==
    /\ ult' = [op |-> "validar_precio", precio |-> precio,
               ret |-> validar_precio(precio)]
    /\ UNCHANGED <<estado, tienda>>

\* ------------------------------------------------------------ SpecTienda
\* products are built, discounted and restored
NextTienda ==
    \/ \E precio \in Precios, stock \in Existencias :
           contador_productos < MaxProductos /\ crear_producto(precio, stock)
    \/ \E i \in 1..Len(productos), porcentaje \in Porcentajes :
           aplicar_descuento(i, porcentaje)
    \/ \E i \in 1..Len(productos) : restaurar_precio_original(i)
    \/ \E precio \in Precios : llamar_validar_precio(precio)

SpecTienda == Init /\ [][NextTienda]_vars

\* ------------------------------------------------------------ SpecIds
\* products are built one after the other, past the ninth
PreciosIds == {2500, 120000}

NextIds ==
    \E precio \in PreciosIds, stock \in Existencias :
        contador_productos < MaxIds /\ crear_producto(precio, stock)

SpecIds == Init /\ [][NextIds]_vars

\* ------------------------------------------------------------ SpecStock
\* products are built with a stock that is not negative, and sold
ExistenciasStock == {0, 5}
PreciosStock == {2500}
CantidadesStock == {-2, 0, 3, 5, 6}

\* a negative cantidad raises the stock: such a call is made only while the
\* stock is at most MaxStock
NextStock ==
    \/ \E precio \in PreciosStock, stock \in ExistenciasStock :
           contador_productos < MaxProductos /\ crear_producto(precio, stock)
    \/ \E i \in 1..Len(productos), cantidad \in CantidadesStock :
           /\ cantidad < 0 => productos[i].stock <= MaxStock
           /\ reducir_stock(i, cantidad)

SpecStock == Init /\ [][NextStock]_vars

\* ------------------------------------------------------------ claims

\* the loan limits and fine rates as the documentation states them
LimiteDeclarado(u) == IF u = "est" THEN 3 ELSE 10
TarifaDeclarada(u) == IF u = "est" THEN 50 ELSE 100
PlazoDeclarado(l) == IF l \in Digitales THEN 7 ELSE 14

\* C1: prestar_libro returns True exactly when, before the call,
\* puede_prestar() holds and the book is available; on success the book is
\* unavailable, held by this borrower and stamped with the time of the call,
\* the book is appended to the held list and exactly one open record with
\* the book's ISBN, title and type is appended to the history.
C1_PrestarLibro ==
    [][ult'.op = "prestar_libro" =>
        LET u == ult'.usuario
            l == ult'.libro
            h == historial_prestamos[u]
            h2 == historial_prestamos'[u]
        IN  /\ ult'.ret = (puede_prestar(u) /\ disponible[l])
            /\ ult'.ret =>
                  /\ disponible'[l] = FALSE
                  /\ usuario_actual'[l] = Some(u)
                  /\ fecha_prestamo'[l] = Some(reloj)
                  /\ libros_prestados'[u] = Append(libros_prestados[u], l)
                  /\ Len(h2) = Len(h) + 1
                  /\ SubSeq(h2, 1, Len(h)) = h
                  /\ h2[Len(h2)].devuelto = FALSE
                  /\ h2[Len(h2)].libro_isbn = isbn(l)
                  /\ h2[Len(h2)].libro_titulo = titulo(l)
                  /\ h2[Len(h2)].tipo_libro = obtener_tipo(l)
                  /\ \A k \in Libros \ {l} :
                        /\ disponible'[k] = disponible[k]
                        /\ usuario_actual'[k] = usuario_actual[k]
                        /\ fecha_prestamo'[k] = fecha_prestamo[k]
    ]_vars

\* a second successful loan of a borrower, of a digital book, made after
\* time has passed
C1_Witness ==
    /\ ult.op = "prestar_libro"
    /\ ult.ret = TRUE
    /\ ult.libro = "D1"
    /\ reloj > 0
    /\ Len(historial_prestamos[ult.usuario]) = 2
    /\ libros_prestados[ult.usuario] = <<"F1", "D1">>

\* C2: in every reachable state the held list of a borrower is no longer
\* than the loan limit: 3 for the Estudiante, 10 for the Profesor.
C2_LimitePrestamos ==
    \A u \in Usuarios : Len(libros_prestados[u]) <= LimiteDeclarado(u)

\* both borrowers hold as many books as their limit allows, and a further
\* loan has just been refused to the Profesor
C2_Witness ==
    /\ Len(libros_prestados["est"]) = 3
    /\ Len(libros_prestados["prof"]) = 10
    /\ ult.op = "prestar_libro"
    /\ ult.usuario = "prof"
    /\ ult.ret = FALSE

\* C3: for every book, the loan timestamp and the holder are both set or
\* both None, and they are set exactly when the book is not available.
C3_EstadoLibro ==
    \A l \in Libros :
        /\ (fecha_prestamo[l] = None) <=> (usuario_actual[l] = None)
        /\ (fecha_prestamo[l] # None) <=> ~disponible[l]

\* a book lent a second time, after it was returned
C3_Witness ==
    /\ ult.op \in {"prestar", "prestar_libro"}
    /\ ult.ret = TRUE
    /\ ~disponible[ult.libro]
    /\ fecha_prestamo[ult.libro] = Some(reloj)
    /\ usuario_actual[ult.libro] = Some(ult.usuario)
    /\ reloj > 0
    /\ \E u \in Usuarios : \E i \in 1..Len(historial_prestamos[u]) :
           historial_prestamos[u][i].devuelto

\* C4: no book is in the held lists of two borrowers at once, nor twice in
\* the held list of one borrower, whatever public operations of Libro and
\* Usuario were called.
C4_UnSoloPrestatario ==
    \A l \in Libros :
        Cardinality(UNION {{<<u, i>> : i \in {j \in 1..Len(libros_prestados[u]) :
                                                  libros_prestados[u][j] = l}} :
                           u \in Usuarios}) <= 1

\* C5: puede_prestar() returns True if and only if the held list is shorter
\* than the loan limit and the fine balance is exactly zero.
C5_PuedePrestar ==
    ult.op = "puede_prestar" =>
        (ult.ret <=>
            /\ Len(libros_prestados[ult.usuario]) < LimiteDeclarado(ult.usuario)
            /\ multa_acumulada[ult.usuario] = 0)

\* puede_prestar() has just answered False to a borrower below the limit
\* who owes one centavo
C5_Witness ==
    /\ ult.op = "puede_prestar"
    /\ ult.ret = FALSE
    /\ multa_acumulada[ult.usuario] = 1
    /\ Len(libros_prestados[ult.usuario]) < LimiteDeclarado(ult.usuario)

\* C6: prestar_libro by a borrower who is at the loan limit or has a nonzero
\* fine balance returns False and changes nothing: neither the borrower's
\* held list, history and balance nor the book's availability, holder and
\* timestamp.
C6_NoElegible ==
    [][(/\ ult'.op = "prestar_libro"
        /\ \/ Len(libros_prestados[ult'.usuario]) >= LimiteDeclarado(ult'.usuario)
           \/ multa_acumulada[ult'.usuario] # 0)
       => (ult'.ret = FALSE /\ UNCHANGED estado)
    ]_vars

\* the Estudiante holds three books and has just been refused a fourth one
\* that is available
C6_Witness ==
    /\ ult.op = "prestar_libro"
    /\ ult.usuario = "est"
    /\ ult.ret = FALSE
    /\ disponible[ult.libro]
    /\ Len(libros_prestados["est"]) = 3
    /\ Len(historial_prestamos["est"]) = 3

\* C7: Libro.prestar on a book that is on loan returns False and leaves the
\* book's holder, timestamp and availability as they were, whichever
\* borrower is passed.
C7_PrestarOcupado ==
    [][(ult'.op = "prestar" /\ ~disponible[ult'.libro]) =>
        /\ ult'.ret = FALSE
        /\ disponible'[ult'.libro] = disponible[ult'.libro]
        /\ usuario_actual'[ult'.libro] = usuario_actual[ult'.libro]
        /\ fecha_prestamo'[ult'.libro] = fecha_prestamo[ult'.libro]
    ]_vars

\* a second prestar, for another borrower and at a later time, was refused
\* and the book still shows the first loan
C7_Witness ==
    /\ ult.op = "prestar"
    /\ ult.ret = FALSE
    /\ ~disponible[ult.libro]
    /\ usuario_actual[ult.libro] # Some(ult.usuario)
    /\ usuario_actual[ult.libro] # None
    /\ fecha_prestamo[ult.libro] # Some(reloj)

\* C8: Libro.devolver of a book on loan for N whole days reports
\* max(0, N - allowed) days late, allowed being 14 for a LibroFisico and 7
\* for a LibroDigital.
C8_DiasRetraso ==
    [][(ult'.op = "devolver" /\ ~disponible[ult'.libro]) =>
        LET l == ult'.libro
            N == days(reloj - fecha_prestamo[l][1])
        IN  ult'.ret[1] = IF N <= PlazoDeclarado(l) THEN 0
                          ELSE N - PlazoDeclarado(l)
    ]_vars

\* a physical book returned 20 days after the loan: 6 days late
C8_Witness ==
    /\ ult.op = "devolver"
    /\ ult.libro \in Fisicos
    /\ ult.ret[1] = 6
    /\ ult.ret[2] # None
    /\ reloj = 41

\* C9: devolver_libro of a held book returns days_late * rate (0.50 for
\* the Estudiante, 1.00 for the Profesor) when days_late > 0 and 0 otherwise,
\* and the balance grows by exactly the amount returned.
C9_Multa ==
    [][(ult'.op = "devolver_libro"
        /\ Contiene(libros_prestados[ult'.usuario], ult'.libro)) =>
        LET u == ult'.usuario
            d == devolver_ret(ult'.libro)[1]
        IN  /\ ult'.ret = IF d > 0 THEN d * TarifaDeclarada(u) ELSE 0
            /\ multa_acumulada'[u] = multa_acumulada[u] + ult'.ret
    ]_vars

\* the Estudiante returned a physical book after 20 days: 6 days late,
\* fine 3.00, balance 3.00
C9_Witness ==
    /\ ult.op = "devolver_libro"
    /\ ult.usuario = "est"
    /\ ult.libro = "F1"
    /\ ult.dias = 6
    /\ ult.ret = 300
    /\ multa_acumulada["est"] = 300

\* C10: while a borrower's balance is nonzero puede_prestar() is False and
\* every prestar_libro of that borrower fails; the balance returns to zero
\* only in a pagar_multa of that borrower; with a zero balance and a held
\* list below the limit puede_prestar() is True.
C10_BloqueoPorMulta ==
    [][/\ \A u \in Usuarios : multa_acumulada[u] # 0 => ~puede_prestar(u)
       /\ (ult'.op = "prestar_libro" /\ multa_acumulada[ult'.usuario] # 0)
             => ult'.ret = FALSE
       /\ (ult'.op = "puede_prestar" /\ multa_acumulada[ult'.usuario] # 0)
             => ult'.ret = FALSE
       /\ \A u \in Usuarios :
             (multa_acumulada[u] # 0 /\ multa_acumulada'[u] = 0)
                => (ult'.op = "pagar_multa" /\ ult'.usuario = u)
       /\ (/\ ult'.op = "puede_prestar"
           /\ multa_acumulada[ult'.usuario] = 0
           /\ Len(libros_prestados[ult'.usuario]) < LimiteDeclarado(ult'.usuario))
             => ult'.ret = TRUE
    ]_vars

\* a borrower fined for a late return has paid and borrowed again
C10_Witness ==
    /\ ult.op = "prestar_libro"
    /\ ult.ret = TRUE
    /\ multa_acumulada[ult.usuario] = 0
    /\ \E i \in 1..Len(historial_prestamos[ult.usuario]) :
          /\ historial_prestamos[ult.usuario][i].devuelto
          /\ historial_prestamos[ult.usuario][i].dias_retraso > 0

\* C11: devolver_libro of a held book returned on time (whole days elapsed
\* <= the allowed duration) returns 0 and leaves the fine balance as it was,
\* and a borrower whose balance was zero before has puede_prestar() true
\* after the return.
C11_DevolucionATiempo ==
    [][(/\ ult'.op = "devolver_libro"
        /\ Contiene(libros_prestados[ult'.usuario], ult'.libro)
        /\ ~disponible[ult'.libro]
        /\ days(reloj - fecha_prestamo[ult'.libro][1]) <= PlazoDeclarado(ult'.libro))
       => LET u == ult'.usuario
          IN  /\ ult'.ret = 0
              /\ multa_acumulada' = multa_acumulada
              /\ multa_acumulada[u] = 0 =>
                    /\ Len(libros_prestados'[u]) < LimiteDeclarado(u)
                    /\ multa_acumulada'[u] = 0
    ]_vars

\* the Profesor returned the digital book 7 days after borrowing it, the
\* last day allowed: no fine, balance zero, and puede_prestar() holds
C11_Witness ==
    /\ ult.op = "devolver_libro"
    /\ ult.usuario = "prof"
    /\ ult.libro = "D1"
    /\ ult.ret = 0
    /\ multa_acumulada["prof"] = 0
    /\ puede_prestar("prof")
    /\ \E i \in 1..Len(historial_prestamos["prof"]) :
          LET r == historial_prestamos["prof"][i]
          IN  /\ r.devuelto
              /\ r.libro_isbn = isbn("D1")
              /\ r.fecha_devolucion = reloj
              /\ days(r.fecha_devolucion - r.fecha_prestamo) = DiasDigital

\* C12: pagar_multa(cantidad) with cantidad > 0 sets the balance to
\* max(0, balance - cantidad), so a payment larger than the balance leaves
\* exactly 0; with cantidad <= 0 the balance is unchanged; the value
\* returned is the balance after the call.
C12_PagarMulta ==
    [][ult'.op = "pagar_multa" =>
        LET u == ult'.usuario
            c == ult'.cantidad
            b == multa_acumulada[u]
        IN  /\ c > 0 => multa_acumulada'[u] = (IF b - c > 0 THEN b - c ELSE 0)
            /\ (c > 0 /\ c > b) => multa_acumulada'[u] = 0
            /\ c <= 0 => multa_acumulada'[u] = b
            /\ ult'.ret = multa_acumulada'[u]
    ]_vars

\* the Estudiante owed 3.00 and paid 2.99: one centavo is left and returned
C12_Witness ==
    /\ ult.op = "pagar_multa"
    /\ ult.usuario = "est"
    /\ ult.cantidad = 299
    /\ ult.ret = 1
    /\ multa_acumulada["est"] = 1

\* C13: the fine balance of every borrower is non-negative in every state
\* reachable by borrowing, returning and paying, whatever the amounts paid
\* (positive, zero or negative).
C13_MultaNoNegativa ==
    \A u \in Usuarios : multa_acumulada[u] >= 0

\* a borrower fined 3.00 paid 2.99 and then offered a negative amount: the
\* balance is still one centavo
C13_Witness ==
    /\ ult.op = "pagar_multa"
    /\ ult.cantidad < 0
    /\ ult.ret = 1
    /\ multa_acumulada[ult.usuario] = 1
    /\ \E i \in 1..Len(historial_prestamos[ult.usuario]) :
          /\ historial_prestamos[ult.usuario][i].devuelto
          /\ historial_prestamos[ult.usuario][i].dias_retraso = 6

\* C14: a borrower's fine balance decreases only in a pagar_multa step of
\* that borrower and increases only in a devolver_libro step of that borrower
\* that returns a held book that is late; prestar_libro (successful or
\* not), on-time returns, returns of books not held, and every operation on
\* another borrower or on a book leave it unchanged.
C14_MarcoMulta ==
    [][\A u \in Usuarios :
        LET tarde(l) == /\ ~disponible[l]
                        /\ days(reloj - fecha_prestamo[l][1]) > PlazoDeclarado(l)
        IN  /\ multa_acumulada'[u] < multa_acumulada[u] =>
                  (ult'.op = "pagar_multa" /\ ult'.usuario = u)
            /\ multa_acumulada'[u] > multa_acumulada[u] =>
                  /\ ult'.op = "devolver_libro"
                  /\ ult'.usuario = u
                  /\ Contiene(libros_prestados[u], ult'.libro)
                  /\ tarde(ult'.libro)
            /\ ult'.op \in {"prestar_libro", "prestar", "devolver",
                            "puede_prestar", "tiempo"} =>
                  multa_acumulada'[u] = multa_acumulada[u]
            /\ (/\ ult'.op = "devolver_libro"
                /\ \/ ~Contiene(libros_prestados[ult'.usuario], ult'.libro)
                   \/ ~tarde(ult'.libro)) =>
                  multa_acumulada'[u] = multa_acumulada[u]
            /\ (ult'.op \in {"devolver_libro", "pagar_multa"}
                /\ ult'.usuario # u) =>
                  multa_acumulada'[u] = multa_acumulada[u]
    ]_vars

\* the Profesor was fined 6.00 for a return six days late and then paid
\* 2.99; the Estudiante, who made no late return, owes nothing
C14_Witness ==
    /\ ult.op = "pagar_multa"
    /\ ult.usuario = "prof"
    /\ ult.cantidad = 299
    /\ multa_acumulada["prof"] = 301
    /\ multa_acumulada["est"] = 0
    /\ \E i \in 1..Len(historial_prestamos["prof"]) :
          /\ historial_prestamos["prof"][i].devuelto
          /\ historial_prestamos["prof"][i].dias_retraso = 6

\* C15: devolver_libro(libro) for a book that is not in the caller's held
\* list returns 0 and changes nothing: the caller's held list, history and
\* balance are as before, and so is the book, even when it is on loan to
\* another borrower.
C15_DevolverNoPrestado ==
    [][(/\ ult'.op = "devolver_libro"
        /\ \A i \in 1..Len(libros_prestados[ult'.usuario]) :
              libros_prestados[ult'.usuario][i] # ult'.libro)
       => (ult'.ret = 0 /\ UNCHANGED estado)
    ]_vars

\* the Estudiante tried to return a book that the Profesor holds: nothing
\* was charged and the book is still on loan to the Profesor
C15_Witness ==
    /\ ult.op = "devolver_libro"
    /\ ult.usuario = "est"
    /\ ult.ret = 0
    /\ libros_prestados["est"] = <<>>
    /\ Contiene(libros_prestados["prof"], ult.libro)
    /\ ~disponible[ult.libro]
    /\ usuario_actual[ult.libro] = Some("prof")
    /\ fecha_prestamo[ult.libro] # None
    /\ fecha_prestamo[ult.libro] # Some(reloj)

\* C16: Libro.devolver on a book that is not on loan returns (0, None) and
\* leaves the book as it was; on a book that is on loan it makes the book
\* available, clears the loan timestamp and the holder, and returns the
\* borrower that was the holder immediately before the call.
C16_LibroDevolver ==
    [][ult'.op = "devolver" =>
        LET l == ult'.libro
        IN  IF disponible[l]
            THEN /\ ult'.ret = <<0, None>>
                 /\ disponible'[l] = disponible[l]
                 /\ fecha_prestamo'[l] = fecha_prestamo[l]
                 /\ usuario_actual'[l] = usuario_actual[l]
            ELSE /\ disponible'[l] = TRUE
                 /\ fecha_prestamo'[l] = None
                 /\ usuario_actual'[l] = None
                 /\ ult'.ret[2] = usuario_actual[l]
                 /\ ult'.ret[2] # None
    ]_vars

\* a book lent to the Profesor was returned late: it is available again with
\* no timestamp and no holder, and the call reported the Profesor
C16_Witness ==
    /\ ult.op = "devolver"
    /\ ult.ret[2] = Some("prof")
    /\ ult.ret[1] > 0
    /\ disponible[ult.libro]
    /\ fecha_prestamo[ult.libro] = None
    /\ usuario_actual[ult.libro] = None
    /\ \E k \in Libros \ {ult.libro} : usuario_actual[k] = Some("est")

\* C17: devolver_libro of a held book removes the book from the held list
\* and closes exactly one record of the history: the newest one whose ISBN
\* is the book's and whose devuelto is False. That record gets devuelto =
\* True, the time of the call as fecha_devolucion and the days late the
\* book reported as dias_retraso; every other record stays as it was.
C17_CierraUnRegistro ==
    [][(/\ ult'.op = "devolver_libro"
        /\ \E i \in 1..Len(libros_prestados[ult'.usuario]) :
              libros_prestados[ult'.usuario][i] = ult'.libro)
       => LET u == ult'.usuario
              l == ult'.libro
              s == libros_prestados[u]
              s2 == libros_prestados'[u]
              h == historial_prestamos[u]
              h2 == historial_prestamos'[u]
              abiertos == {i \in 1..Len(h) :
                              h[i].libro_isbn = isbn(l) /\ ~h[i].devuelto}
              cambiados == {i \in 1..Len(h) : h2[i] # h[i]}
              reportado == IF disponible[l] THEN 0
                           ELSE LET N == days(reloj - fecha_prestamo[l][1])
                                IN  IF N > PlazoDeclarado(l)
                                    THEN N - PlazoDeclarado(l) ELSE 0
          IN  /\ Len(s2) = Len(s) - 1
              /\ \A i \in 1..Len(s2) : s2[i] # l
              /\ \E k \in 1..Len(s) :
                    /\ s[k] = l
                    /\ s2 = SubSeq(s, 1, k - 1) \o SubSeq(s, k + 1, Len(s))
              /\ Len(h2) = Len(h)
              /\ abiertos # {}
              /\ \E m \in abiertos :
                    /\ \A j \in abiertos : j <= m
                    /\ cambiados = {m}
                    /\ h2[m].devuelto = TRUE
                    /\ h2[m].fecha_devolucion = reloj
                    /\ h2[m].dias_retraso = reportado
                    /\ h2[m].libro_isbn = h[m].libro_isbn
                    /\ h2[m].libro_titulo = h[m].libro_titulo
                    /\ h2[m].tipo_libro = h[m].tipo_libro
                    /\ h2[m].fecha_prestamo = h[m].fecha_prestamo
    ]_vars

\* a borrower took two copies of one title at different times and returned
\* one of them late: the newer of the two records is closed, the older one
\* is still open, and the other copy is still held
C17_Witness ==
    /\ ult.op = "devolver_libro"
    /\ ult.dias > 0
    /\ Len(libros_prestados[ult.usuario]) = 1
    /\ libros_prestados[ult.usuario][1] # ult.libro
    /\ Len(historial_prestamos[ult.usuario]) = 2
    /\ ~historial_prestamos[ult.usuario][1].devuelto
    /\ historial_prestamos[ult.usuario][2].devuelto
    /\ historial_prestamos[ult.usuario][2].dias_retraso = ult.dias
    /\ historial_prestamos[ult.usuario][2].fecha_devolucion = reloj
    /\ historial_prestamos[ult.usuario][1].fecha_prestamo
          < historial_prestamos[ult.usuario][2].fecha_prestamo
    /\ historial_prestamos[ult.usuario][1].libro_isbn = isbn(ult.libro)

\* C18: a borrower's history is append-only and its records are
\* irreversible. In every step the history keeps every record in its place;
\* a record is added only by a successful prestar_libro of that borrower, at
\* the end and open; a record changes only from open to closed, in a
\* devolver_libro of that borrower, keeping the data of the loan; a closed
\* record never changes again.
C18_HistorialSoloCrece ==
    [][\A u \in Usuarios :
        LET h == historial_prestamos[u]
            h2 == historial_prestamos'[u]
        IN  /\ Len(h2) >= Len(h)
            /\ \A i \in 1..Len(h) :
                  /\ h2[i].libro_isbn = h[i].libro_isbn
                  /\ h2[i].libro_titulo = h[i].libro_titulo
                  /\ h2[i].tipo_libro = h[i].tipo_libro
                  /\ h2[i].fecha_prestamo = h[i].fecha_prestamo
                  /\ h[i].devuelto => h2[i] = h[i]
                  /\ h2[i] # h[i] =>
                        /\ ~h[i].devuelto
                        /\ h2[i].devuelto
                        /\ ult'.op = "devolver_libro"
                        /\ ult'.usuario = u
            /\ Len(h2) > Len(h) =>
                  /\ Len(h2) = Len(h) + 1
                  /\ h2[Len(h2)].devuelto = FALSE
                  /\ ult'.op = "prestar_libro"
                  /\ ult'.usuario = u
                  /\ ult'.ret = TRUE
    ]_vars

\* a borrower returned a book a second time at a later moment: the record
\* closed by the first return still shows the time and the days of that
\* first return, and sits before the record closed now
C18_Witness ==
    /\ ult.op = "devolver_libro"
    /\ Len(historial_prestamos[ult.usuario]) = 2
    /\ historial_prestamos[ult.usuario][1].devuelto
    /\ historial_prestamos[ult.usuario][2].devuelto
    /\ historial_prestamos[ult.usuario][1].fecha_devolucion < reloj
    /\ historial_prestamos[ult.usuario][2].fecha_devolucion = reloj
    /\ historial_prestamos[ult.usuario][1].fecha_prestamo
          <= historial_prestamos[ult.usuario][2].fecha_prestamo
    /\ historial_prestamos[ult.usuario][1].libro_isbn = isbn(ult.libro)

\* C19: a return reverses a loan. When a successful prestar_libro(libro) is
\* followed by devolver_libro(libro) of the same borrower, the book is
\* available again with no holder and no timestamp, the held list is the
\* one the loan found, and the balance is the one the loan found plus the
\* fine this return charged, which is zero when the return is on time.
C19_IdaYVuelta ==
    [][(/\ ult.op = "prestar_libro"
        /\ ult.ret = TRUE
        /\ ult'.op = "devolver_libro"
        /\ ult'.usuario = ult.usuario
        /\ ult'.libro = ult.libro)
       => LET u == ult.usuario
              l == ult.libro
              N == days(reloj - fecha_prestamo[l][1])
          IN  /\ disponible'[l] = TRUE
              /\ usuario_actual'[l] = None
              /\ fecha_prestamo'[l] = None
              /\ libros_prestados'[u] = ult.antes
              /\ multa_acumulada'[u] = ult.saldo + ult'.ret
              /\ N <= PlazoDeclarado(l) => multa_acumulada'[u] = ult.saldo
              /\ \A k \in Libros \ {l} :
                    /\ disponible'[k] = disponible[k]
                    /\ usuario_actual'[k] = usuario_actual[k]
                    /\ fecha_prestamo'[k] = fecha_prestamo[k]
    ]_vars

\* a borrower who held one book took a second one and returned it late: the
\* second book is available again and the held list is the first book alone
C19_Witness ==
    /\ ult.op = "devolver_libro"
    /\ ult.ret > 0
    /\ multa_acumulada[ult.usuario] = ult.ret
    /\ disponible[ult.libro]
    /\ usuario_actual[ult.libro] = None
    /\ fecha_prestamo[ult.libro] = None
    /\ Len(libros_prestados[ult.usuario]) = 1
    /\ libros_prestados[ult.usuario][1] # ult.libro
    /\ Len(historial_prestamos[ult.usuario]) = 2
    /\ ~historial_prestamos[ult.usuario][1].devuelto
    /\ historial_prestamos[ult.usuario][2].devuelto
    /\ historial_prestamos[ult.usuario][2].libro_isbn = isbn(ult.libro)
    /\ historial_prestamos[ult.usuario][1].libro_isbn # isbn(ult.libro)

\* C20: Producto.aplicar_descuento(porcentaje) with a percentage outside
\* [0, 100] leaves the product as it was and returns the current price; with
\* a percentage inside [0, 100] it sets the current price to the original
\* price minus that percentage of the original price and returns it.
C20_AplicarDescuento ==
    [][ult'.op = "aplicar_descuento" =>
        LET i == ult'.producto
            p == ult'.porcentaje
            pr == productos[i]
            pr2 == productos'[i]
        IN  /\ (p < 0 \/ p > 100) =>
                  /\ productos' = productos
                  /\ ult'.ret = pr.precio_actual
            /\ (p >= 0 /\ p <= 100) =>
                  /\ 100 * pr2.precio_actual
                        = 100 * pr.precio_original - p * pr.precio_original
                  /\ ult'.ret = pr2.precio_actual
                  /\ pr2.precio_original = pr.precio_original
    ]_vars

\* a product of 1200.00 was discounted by 10 percent and then offered a
\* discount of 101 percent: the price is still 1080.00, and that is what
\* the call returned
C20_Witness ==
    /\ ult.op = "aplicar_descuento"
    /\ ult.porcentaje = 101
    /\ ult.ret = 108000
    /\ productos[ult.producto].precio_actual = 108000
    /\ productos[ult.producto].precio_original = 120000

\* C21: no product ever has a negative original price or a negative current
\* price, whatever price is passed to the constructor and whatever discounts
\* are applied afterwards.
C21_PrecioNoNegativo ==
    \A i \in 1..Len(productos) :
        /\ productos[i].precio_original >= 0
        /\ productos[i].precio_actual >= 0

\* C22: when books are lent and returned only through Usuario.prestar_libro
\* and Usuario.devolver_libro, a book is in a borrower's held list if and
\* only if the book is unavailable and its usuario_actual is that borrower.
C22_ListaYEstado ==
    \A u \in Usuarios : \A l \in Libros :
        (\E i \in 1..Len(libros_prestados[u]) : libros_prestados[u][i] = l)
            <=> (disponible[l] = FALSE /\ usuario_actual[l] = Some(u))

\* each borrower holds one book, and the Estudiante has held, and given
\* back, the book the Profesor holds now
C22_Witness ==
    /\ libros_prestados["est"] = <<"D1">>
    /\ libros_prestados["prof"] = <<"F1">>
    /\ usuario_actual["F1"] = Some("prof")
    /\ usuario_actual["D1"] = Some("est")
    /\ \E i \in 1..Len(historial_prestamos["est"]) :
          /\ historial_prestamos["est"][i].libro_isbn = isbn("F1")
          /\ historial_prestamos["est"][i].devuelto
    /\ ult.op = "prestar_libro"
    /\ ult.ret = TRUE

\* C23: for each borrower the number of history records with devuelto =
\* False equals the length of the held list, and for each ISBN the number of
\* open records with that ISBN equals the number of held books with that
\* ISBN, also when several books share an ISBN.
C23_AbiertosYPrestados ==
    \A u \in Usuarios :
        LET h == historial_prestamos[u]
            s == libros_prestados[u]
            abiertos(x) == {i \in 1..Len(h) : ~h[i].devuelto /\ h[i].libro_isbn = x}
            prestados(x) == {i \in 1..Len(s) : isbn(s[i]) = x}
        IN  /\ Cardinality({i \in 1..Len(h) : ~h[i].devuelto}) = Len(s)
            /\ \A l \in Libros :
                  Cardinality(abiertos(isbn(l))) = Cardinality(prestados(isbn(l)))

\* a borrower who took both copies of one title has returned one of them:
\* one record of that ISBN is open and one copy is held
C23_Witness ==
    /\ ult.op = "devolver_libro"
    /\ Len(libros_prestados[ult.usuario]) = 1
    /\ isbn(libros_prestados[ult.usuario][1]) = isbn(ult.libro)
    /\ libros_prestados[ult.usuario][1] # ult.libro
    /\ Len(historial_prestamos[ult.usuario]) = 2
    /\ historial_prestamos[ult.usuario][1].libro_isbn = isbn(ult.libro)
    /\ historial_prestamos[ult.usuario][2].libro_isbn = isbn(ult.libro)
    /\ historial_prestamos[ult.usuario][1].devuelto
          # historial_prestamos[ult.usuario][2].devuelto

\* C24: the i-th product built has the ID PROD- followed by i written with
\* four digits, zeros on the left, and no two products have the same ID.
C24_IdsUnicos ==
    /\ \A i \in 1..Len(productos) :
          LET d == productos[i].id.numero
          IN  /\ productos[i].id.prefijo = "PROD-"
              /\ Len(d) = 4
              /\ \A k \in 1..4 : d[k] \in 0..9
              /\ d[1] * 1000 + d[2] * 100 + d[3] * 10 + d[4] = i
    /\ \A i, j \in 1..Len(productos) :
          productos[i].id = productos[j].id => i = j

\* eleven products were built: the ninth is PROD-0009, the tenth PROD-0010
C24_Witness ==
    /\ Len(productos) = 11
    /\ productos[9].id = [prefijo |-> "PROD-", numero |-> <<0, 0, 0, 9>>]
    /\ productos[10].id = [prefijo |-> "PROD-", numero |-> <<0, 0, 1, 0>>]
    /\ productos[10].precio_original # productos[11].precio_original
    /\ ult.op = "Producto"
    /\ ult.producto = 11

\* C25: reducir_stock(cantidad) returns True exactly when stock >= cantidad;
\* on success cantidad moves from stock to ventas_totales, so that their sum
\* is unchanged; on failure nothing changes; and, the products being built
\* with a stock that is not negative, no stock is ever negative.
C25_ReducirStock ==
    [][/\ ult'.op = "reducir_stock" =>
            LET i == ult'.producto
                c == ult'.cantidad
                pr == productos[i]
                pr2 == productos'[i]
            IN  /\ ult'.ret = (pr.stock >= c)
                /\ ult'.ret = TRUE =>
                      /\ pr2.stock = pr.stock - c
                      /\ pr2.ventas_totales = pr.ventas_totales + c
                      /\ pr2.stock + pr2.ventas_totales
                            = pr.stock + pr.ventas_totales
                /\ ult'.ret = FALSE => productos' = productos
                /\ Len(productos') = Len(productos)
                /\ \A k \in 1..Len(productos) : k # i => productos'[k] = productos[k]
                /\ pr2.precio_actual = pr.precio_actual
                /\ pr2.precio_original = pr.precio_original
                /\ pr2.id = pr.id
       /\ \A k \in 1..Len(productos') : productos'[k].stock >= 0
    ]_vars

\* a product built with five units sold all five in one call: nothing is
\* left in stock and five are counted as sold
C25_Witness ==
    /\ ult.op = "reducir_stock"
    /\ ult.ret = TRUE
    /\ ult.cantidad = 5
    /\ productos[ult.producto].stock = 0
    /\ productos[ult.producto].ventas_totales = 5

\* C26: discounts do not compound. A valid aplicar_descuento sets the
\* current price from the original price and the percentage alone, whatever
\* the current price was; the original price never changes;
\* aplicar_descuento(0) and restaurar_precio_original set the current price
\* to the original; and the current price of a product whose original price
\* is not negative lies between 0 and the original.
C26_SinAcumular ==
    [][/\ \A i \in 1..Len(productos) :
             productos'[i].precio_original = productos[i].precio_original
       /\ (ult'.op = "aplicar_descuento"
           /\ ult'.porcentaje >= 0 /\ ult'.porcentaje <= 100) =>
             100 * productos'[ult'.producto].precio_actual
                = (100 - ult'.porcentaje) * productos[ult'.producto].precio_original
       /\ (ult'.op = "aplicar_descuento" /\ ult'.porcentaje = 0) =>
             productos'[ult'.producto].precio_actual
                = productos[ult'.producto].precio_original
       /\ ult'.op = "restaurar_precio_original" =>
             productos'[ult'.producto].precio_actual
                = productos[ult'.producto].precio_original
       /\ \A i \in 1..Len(productos') :
             /\ \E p \in 0..100 :
                   100 * productos'[i].precio_actual
                      = (100 - p) * productos'[i].precio_original
             /\ productos'[i].precio_original >= 0 =>
                   /\ productos'[i].precio_actual >= 0
                   /\ productos'[i].precio_actual <= productos'[i].precio_original
    ]_vars

\* a product of 1200.00 that stood at 1080.00 after a discount of 10 percent
\* was given a discount of 50 percent: the price is 600.00, not 540.00
C26_Witness ==
    /\ ult.op = "aplicar_descuento"
    /\ ult.porcentaje = 50
    /\ ult.antes = 108000
    /\ ult.ret = 60000
    /\ productos[ult.producto].precio_actual = 60000
    /\ productos[ult.producto].precio_original = 120000
====
